---- MODULE Spec2Model ----
(***************************************************************************)
(* A model of the two tutorial notebooks of pytorch-tutorials:             *)
(*   src/04_text/04_transformer_tutorial.ipynb  (batchify, get_batch, the  *)
(*       attention mask, train/evaluate, the epoch loop, the test cell)    *)
(*   src/01_learning_pytorch/02_autograd_tutorial.ipynb (no_grad, detach)  *)
(* Three specifications share the module:                                  *)
(*   SpecData  the data functions applied to every small corpus            *)
(*   Spec      one top-to-bottom run of the transformer notebook           *)
(*   SpecGrad  the no_grad / detach cells of the autograd notebook         *)
(***************************************************************************)
EXTENDS Integers, Sequences, FiniteSets, TLC

VARIABLES
    \* ---- data functions (SpecData)
    text,        \* data.examples[0].text: the token sequence given to batchify
    bsz,         \* batchify's bsz argument
    bptt,        \* the global bptt read by get_batch and by the loops
    dpc,         \* position of the data script
    batched,     \* the tensor batchify returned
    loopI,       \* the i of `for i in range(0, size - 1, bptt)`
    i,           \* the i of the last get_batch call
    data,        \* get_batch's first result
    target,      \* get_batch's second result (1-D)
    lastCall,    \* "loop": the last get_batch call came from the loop; "any": a direct call
    src_mask,    \* TransformerModel.src_mask
    \* ---- the notebook run (Spec)
    pc,          \* control position of the run
    stmt,        \* index of the next top-level statement of Program
    bound,       \* the global names bound so far
    exc,         \* "none", or the step that raised
    nTrain,      \* train_data.size(0)
    nVal,        \* val_data.size(0)
    nTest,       \* test_data.size(0)
    epoch,       \* the loop variable epoch
    batchI,      \* the i of the running train/evaluate loop
    batch,       \* the batch counter of enumerate() in train()
    logged,      \* number of times the logging branch of train() ran
    heap,        \* object id -> parameter version of the module object
    model,       \* the global model: an object id
    best_model,  \* the global best_model: "None" or an object id
    best_val_loss,
    val_loss,
    opt_lr,      \* optimizer.param_groups[0]['lr'] as <<numerator, denominator>>
    sched_last_epoch,  \* scheduler.last_epoch
    valLoss,     \* history: the validation loss of each finished epoch
    endParams,   \* history: the parameter version at each epoch's evaluation
    stepLr,      \* history: <<epoch, lr>> of every optimizer.step()
    testedParams,\* history: the parameter version evaluate() saw in the test cell
    \* ---- the autograd cells (SpecGrad)
    gpc,         \* index of the next statement of the autograd cells
    grad_enabled,\* torch's grad mode
    saved_mode,  \* the mode no_grad().__enter__ saved
    xT,          \* the tensor x
    yT,          \* the tensor y = x.detach()
    outside,     \* requires_grad of x ** 2 computed outside the block
    inside,      \* requires_grad of x ** 2 computed inside the block
    printed      \* the lines the cells printed

dataVars == <<text, bsz, dpc, batched, loopI, i, data, target, lastCall, src_mask>>
runVars == <<pc, stmt, bound, exc, nTrain, nVal, nTest, epoch, batchI, batch, logged,
              heap, model, best_model, best_val_loss, val_loss, opt_lr,
              sched_last_epoch, valLoss, endParams, stepLr, testedParams>>
gradVars == <<gpc, grad_enabled, saved_mode, xT, yT, outside, inside, printed>>
vars == <<dataVars, bptt, runVars, gradVars>>

\* --------------------------------------------------------------- bounds
MaxTokens == 7      \* longest corpus given to batchify
MaxBsz == 3         \* largest bsz
MaxBptt == 3        \* largest bptt
MaxRows == 4        \* largest train/val/test tensor of the run
MaxLoss == 3        \* validation losses are 1..MaxLoss
LogInterval == 2    \* log_interval (200 in the notebook), scaled to the run's batches
MaxAbs == 1         \* the entries of x are -MaxAbs..MaxAbs

Min(a, b) == IF a < b THEN a ELSE b

\* ============================================================ tensors
\* A 2-D tensor is [rows, cols, el] with el[r][c], r in 0..rows-1, c in 0..cols-1;
\* a 1-D tensor is [len, el] with el[k], k in 0..len-1.
Tokens == {"a", "b"}

\* TEXT.vocab.stoi: the token's id (the ids below 4 are <unk> <pad> <sos> <eos>)
stoi(tok) == IF tok = "a" THEN 4 ELSE 5

\* TEXT.numericalize([text]): an (N, 1) tensor of token ids
Numericalize(t) ==
    [rows |-> Len(t), cols |-> 1,
     el |-> [r \in 0..(Len(t) - 1) |-> [c \in 0..0 |-> stoi(t[r + 1])]]]

Numel(t) == t.rows * t.cols

\* element k of a contiguous tensor in storage (row-major) order
Flat(t, k) == t.el[k \div t.cols][k % t.cols]

\* tensor.narrow(0, start, length)
Narrow0(t, start, length) ==
    [rows |-> length, cols |-> t.cols,
     el |-> [r \in 0..(length - 1) |-> t.el[start + r]]]

\* view(d0, -1) can infer the free dimension: torch refuses a tensor of 0 elements
\* (the size is ambiguous) and a count d0 does not divide
ViewInferable(t, d0) == Numel(t) # 0 /\ Numel(t) % d0 = 0

\* tensor.view(d0, -1) of a contiguous tensor
View2(t, d0) ==
    LET c == Numel(t) \div d0 IN
    [rows |-> d0, cols |-> c,
     el |-> [r \in 0..(d0 - 1) |-> [k \in 0..(c - 1) |-> Flat(t, r * c + k)]]]

\* tensor.t()
Transpose(t) ==
    [rows |-> t.cols, cols |-> t.rows,
     el |-> [r \in 0..(t.cols - 1) |-> [c \in 0..(t.rows - 1) |-> t.el[c][r]]]]

\* tensor.view(-1) of a contiguous tensor
ViewFlat(t) == [len |-> Numel(t), el |-> [k \in 0..(Numel(t) - 1) |-> Flat(t, k)]]

\* source[lo:hi] along dimension 0, with Python's clamping of slice ends
Slice0(t, lo, hi) ==
    LET a == Min(lo, t.rows)
        b == Min(hi, t.rows)
        n == IF b > a THEN b - a ELSE 0
    IN [rows |-> n, cols |-> t.cols, el |-> [r \in 0..(n - 1) |-> t.el[a + r]]]

NoTensor == [rows |-> 0, cols |-> 0, el |-> <<>>]
NoVector == [len |-> 0, el |-> <<>>]

\* ---- batchify
BatchifyView_NoTranspose(d, n) == View2(Narrow0(d, 0, (d.rows \div n) * n), d.rows \div n)

\* the body of batchify after numericalize: nbatch, narrow, view(bsz, -1).t().contiguous()
BatchifyView(d, n) == Transpose(View2(Narrow0(d, 0, (d.rows \div n) * n), n))

\* batchify raises when view cannot infer the free dimension
BatchifyRaises(t, n) ==
    LET d == Numericalize(t) IN ~ViewInferable(Narrow0(d, 0, (d.rows \div n) * n), n)

batchify(t, n) == BatchifyView(Numericalize(t), n)

\* ---- get_batch
seq_len_NoMin(source, k) == bptt

\* seq_len = min(bptt, len(source) - 1 - i)
seq_len(source, k) == Min(bptt, source.rows - 1 - k)

\* data = source[i:i+seq_len]
get_batch_data(source, k) == Slice0(source, k, k + seq_len(source, k))

get_batch_target_NoShift(source, k) == ViewFlat(Slice0(source, k, k + seq_len(source, k)))

\* target = source[i+1:i+1+seq_len].view(-1)
get_batch_target(source, k) == ViewFlat(Slice0(source, k + 1, k + 1 + seq_len(source, k)))

\* ---- _generate_square_subsequent_mask
\* torch.ones(sz, sz)
Ones(sz) ==
    [rows |-> sz, cols |-> sz, el |-> [r \in 0..(sz - 1) |-> [c \in 0..(sz - 1) |-> "1.0"]]]

\* torch.triu(m): zero below the diagonal
Triu(m) ==
    [m EXCEPT !.el = [r \in 0..(m.rows - 1) |-> [c \in 0..(m.cols - 1) |->
                        IF c >= r THEN m.el[r][c] ELSE "0.0"]]]

\* (float tensor == 1)
EqOne(m) ==
    [m EXCEPT !.el = [r \in 0..(m.rows - 1) |-> [c \in 0..(m.cols - 1) |->
                        m.el[r][c] = "1.0"]]]

\* (bool tensor == v) for v in {0, 1}: True counts as 1
BoolEq(m, v) ==
    [m EXCEPT !.el = [r \in 0..(m.rows - 1) |-> [c \in 0..(m.cols - 1) |->
                        (IF m.el[r][c] THEN 1 ELSE 0) = v]]]

\* bool tensor .float()
ToFloat(m) ==
    [m EXCEPT !.el = [r \in 0..(m.rows - 1) |-> [c \in 0..(m.cols - 1) |->
                        IF m.el[r][c] THEN "1.0" ELSE "0.0"]]]

\* m.masked_fill(cond, v)
MaskedFill(m, cond, v) ==
    [m EXCEPT !.el = [r \in 0..(m.rows - 1) |-> [c \in 0..(m.cols - 1) |->
                        IF cond.el[r][c] THEN v ELSE m.el[r][c]]]]

BoolMask_NoTranspose(sz) == EqOne(Triu(Ones(sz)))

\* mask = (torch.triu(torch.ones(sz, sz)) == 1).transpose(0, 1)
BoolMask(sz) == Transpose(EqOne(Triu(Ones(sz))))

\* mask.float().masked_fill(mask == 0, float('-inf')).masked_fill(mask == 1, float(0.0))
generate_square_subsequent_mask(sz) ==
    LET mask == BoolMask(sz) IN
    MaskedFill(MaskedFill(ToFloat(mask), BoolEq(mask, 0), "-inf"), BoolEq(mask, 1), "0.0")

\* ============================================================ SpecData
Corpora == UNION {[1..n -> Tokens] : n \in 0..MaxTokens}

\* an autograd tensor: its values and its requires_grad flag
NoT == [val |-> <<>>, requires_grad |-> FALSE]

RunIdle ==
    /\ pc = "idle" /\ stmt = 0 /\ bound = {} /\ exc = "none"
    /\ nTrain = 0 /\ nVal = 0 /\ nTest = 0
    /\ epoch = 0 /\ batchI = 0 /\ batch = 0 /\ logged = 0
    /\ heap = [o \in {} |-> 0] /\ model = "None" /\ best_model = "None"
    /\ best_val_loss = 0 /\ val_loss = 0
    /\ opt_lr = <<0, 1>> /\ sched_last_epoch = 0
    /\ valLoss = <<>> /\ endParams = <<>> /\ stepLr = {} /\ testedParams = 0

GradIdle ==
    /\ gpc = 0 /\ grad_enabled = TRUE /\ saved_mode = TRUE
    /\ xT = NoT /\ yT = NoT /\ outside = NoT /\ inside = NoT /\ printed = <<>>

DataIdle ==
    /\ text = <<>> /\ bsz = 1 /\ dpc = "idle"
    /\ batched = NoTensor /\ loopI = 0 /\ i = 0
    /\ data = NoTensor /\ target = NoVector /\ lastCall = "none" /\ src_mask = NoTensor

DataInit ==
    /\ text \in Corpora
    /\ bsz \in 1..MaxBsz
    /\ bptt \in 1..MaxBptt
    /\ dpc = "start"
    /\ batched = NoTensor /\ loopI = 0 /\ i = 0
    /\ data = NoTensor /\ target = NoVector /\ lastCall = "none" /\ src_mask = NoTensor
    /\ RunIdle /\ GradIdle

\* train_data = batchify(train_txt, batch_size)
Batchify ==
    /\ dpc = "start"
    /\ IF BatchifyRaises(text, bsz)
       THEN /\ dpc' = "raised"
            /\ UNCHANGED batched
       ELSE /\ dpc' = "ready"
            /\ batched' = batchify(text, bsz)
    /\ UNCHANGED <<text, bsz, loopI, i, data, target, lastCall, src_mask>>
    /\ UNCHANGED <<bptt, runVars, gradVars>>

\* forward(): the mask is rebuilt when there is none or its size differs from src.size(0)
ForwardMask(src) ==
    IF src_mask = NoTensor \/ src_mask.rows # src.rows
    THEN generate_square_subsequent_mask(src.rows)
    ELSE src_mask

\* a direct call get_batch(source, k), any k with 0 <= k < len(source) - 1
GetBatchCall ==
    /\ dpc = "ready"
    /\ \E k \in 0..(batched.rows - 2) :
          /\ i' = k
          /\ data' = get_batch_data(batched, k)
          /\ target' = get_batch_target(batched, k)
    /\ lastCall' = "any"
    /\ UNCHANGED <<text, bsz, dpc, batched, loopI, src_mask>>
    /\ UNCHANGED <<bptt, runVars, gradVars>>

\* one iteration of `for i in range(0, source.size(0) - 1, bptt)`:
\* get_batch(source, i), then model(data) (which keeps the mask current)
LoopIteration ==
    /\ dpc = "ready"
    /\ loopI < batched.rows - 1
    /\ i' = loopI
    /\ data' = get_batch_data(batched, loopI)
    /\ target' = get_batch_target(batched, loopI)
    /\ src_mask' = ForwardMask(get_batch_data(batched, loopI))
    /\ lastCall' = "loop"
    /\ loopI' = loopI + bptt
    /\ UNCHANGED <<text, bsz, dpc, batched>>
    /\ UNCHANGED <<bptt, runVars, gradVars>>

\* the range is exhausted
LoopExit ==
    /\ dpc = "ready"
    /\ loopI >= batched.rows - 1
    /\ dpc' = "finished"
    /\ UNCHANGED <<text, bsz, batched, loopI, i, data, target, lastCall, src_mask>>
    /\ UNCHANGED <<bptt, runVars, gradVars>>

DataNext == Batchify \/ GetBatchCall \/ LoopIteration \/ LoopExit

SpecData == DataInit /\ [][DataNext]_vars

\* ============================================================ the notebook run
\* ---- program constants
Inf == 1000000      \* float("inf"): above every loss of the model
epochs == 3
lr == 5
GammaNum == 19      \* gamma = 0.95 = 19/20
GammaDen == 20
StepSize == 1       \* StepLR's step_size

\* ---- names: a statement reads global names and binds global names
S(r, w) == [reads |-> r, writes |-> w]

\* what the bodies read when they are CALLED (a name in a def or class body is
\* looked up when the body runs, not when the def statement runs)
InitReads == {"TransformerModel", "PositionalEncoding", "nn", "torch", "math"}
BatchifyReads == {"TEXT", "device"}
GetBatchReads == {"bptt"}
ForwardReads == {"math", "torch"}

Cell3 == <<S({}, {"math", "torch", "nn", "F"}),
           S({"nn"}, {"TransformerModel"})>>

Cell5 == <<S({"nn"}, {"PositionalEncoding"})>>

Cell8 == <<S({}, {"torchtext", "get_tokenizer"}),
           S({"torchtext", "get_tokenizer"}, {"TEXT"}),
           S({"torchtext", "TEXT"}, {"train_txt", "val_txt", "test_txt"}),
           S({"TEXT", "train_txt"}, {}),
           S({"torch"}, {"device"}),
           S({}, {"batchify"}),
           S({}, {"batch_size"}),
           S({}, {"eval_batch_size"}),
           S({"batchify", "train_txt", "batch_size"} \cup BatchifyReads, {"train_data"}),
           S({"batchify", "val_txt", "eval_batch_size"} \cup BatchifyReads, {"val_data"}),
           S({"batchify", "test_txt", "eval_batch_size"} \cup BatchifyReads, {"test_data"})>>

Cell11 == <<S({}, {"bptt"}), S({}, {"get_batch"})>>

Cell14 == <<S({"TEXT"}, {"ntokens"}),
            S({}, {"emsize", "nhid", "nlayers", "nhead", "dropout"}),
            S({"TransformerModel", "ntokens", "emsize", "nhead", "nhid", "nlayers",
               "dropout", "device"} \cup InitReads, {"model"})>>

Cell17 == <<S({"nn"}, {"criterion"}),
            S({}, {"lr"}),
            S({"torch", "model", "lr"}, {"optimizer"}),
            S({"torch", "optimizer"}, {"scheduler"}),
            S({}, {"time"}),
            S({}, {"train"}),
            S({}, {"evaluate"})>>

\* the three assignments that precede the for statement of the epoch cell
Cell19Head == <<S({}, {"best_val_loss"}), S({}, {"epochs"}), S({}, {"best_model"})>>

Program_ModelBeforePositionalEncoding ==
    <<Cell3, Cell8, Cell11, Cell14, Cell5, Cell17, Cell19Head>>

\* the code cells in file order, up to the epoch loop
Program == <<Cell3, Cell5, Cell8, Cell11, Cell14, Cell17, Cell19Head>>

\* `for epoch in range(1, epochs + 1)`, epoch_start_time, and the entry of train()
ForEpochStmts == <<S({"epochs"}, {"epoch"}),
                   S({"time"}, {"epoch_start_time"}),
                   S({"train", "model", "time", "TEXT", "train_data", "bptt"}, {})>>

\* one iteration of the batch loop of train(), without the logging branch
TrainBatchStmts ==
    <<S({"get_batch", "train_data"} \cup GetBatchReads, {}),
      S({"optimizer"}, {}),
      S({"model"} \cup ForwardReads, {}),
      S({"criterion"}, {}),
      S({"torch", "model"}, {}),
      S({"optimizer"}, {})>>

\* the logging branch of train(): reads the global epoch
TrainLogStmts == <<S({"time", "epoch", "train_data", "bptt", "scheduler", "math"}, {})>>

\* the call evaluate(model, val_data) and the entry of evaluate()
EvalEntryStmts == <<S({"evaluate", "model", "val_data", "TEXT", "torch", "bptt"}, {})>>

\* one iteration of the loop of evaluate()
EvalBatchStmts == <<S({"get_batch"} \cup GetBatchReads, {}),
                    S(ForwardReads, {}),
                    S({"criterion"}, {})>>

\* val_loss = ..., the prints, and the names the if statement reads
EvalReturnStmts == <<S({}, {"val_loss"}),
                     S({"epoch", "time", "epoch_start_time", "val_loss", "math"}, {})>>

CompareStmts == <<S({"val_loss", "best_val_loss"}, {})>>
SaveStmts == <<S({"val_loss"}, {"best_val_loss"}), S({"model"}, {"best_model"})>>
SchedulerStmts == <<S({"scheduler"}, {})>>
TestEntryStmts == <<S({"evaluate", "best_model", "test_data", "TEXT", "torch", "bptt"}, {})>>
TestReturnStmts == <<S({}, {"test_loss"}), S({"test_loss", "math"}, {})>>

\* running statements in order: ok is FALSE when one reads an unbound name
RECURSIVE Exec(_, _)
Exec(ss, b) ==
    IF ss = <<>> THEN [ok |-> TRUE, bound |-> b]
    ELSE IF ~(Head(ss).reads \subseteq b) THEN [ok |-> FALSE, bound |-> b]
    ELSE Exec(Tail(ss), b \cup Head(ss).writes)

Writes(ss) == UNION {ss[k].writes : k \in 1..Len(ss)}

\* ---- exceptions
\* the frames around each control position, innermost last
Frames(p) ==
    CASE p = "top" -> <<"cell">>
      [] p = "for" -> <<"cell", "for epoch">>
      [] p = "train" -> <<"cell", "for epoch", "train", "for batch">>
      [] p = "eval" -> <<"cell", "for epoch", "evaluate", "no_grad", "for i">>
      [] p = "compare" -> <<"cell", "for epoch">>
      [] p = "sched" -> <<"cell", "for epoch">>
      [] p = "test" -> <<"cell", "evaluate", "no_grad", "for i">>
      [] OTHER -> <<>>

HasHandler_BatchLoops(frame) == frame \in {"for batch", "for i"}

\* a frame that catches: the cells hold no try statement, and no_grad's __exit__
\* does not swallow the exception
HasHandler(frame) == FALSE

\* where control goes when a step at p raises: the loop goes on if a frame around
\* it catches, and the run is aborted otherwise
RaiseTo(p) ==
    IF \E k \in 1..Len(Frames(p)) : HasHandler(Frames(p)[k]) THEN p ELSE "aborted"

TrainSteps == {"get_batch", "forward", "criterion", "backward", "clip_grad_norm_",
               "optimizer.step"}
EvalSteps == {"get_batch", "forward", "criterion"}

\* ---- learning rate
\* StepLR.step(): last_epoch += 1, and the rate is multiplied by gamma every step_size
Decay(r, last) ==
    IF last % StepSize = 0 THEN <<r[1] * GammaNum, r[2] * GammaDen>> ELSE r

\* ---- validation loss
\* evaluate() is deterministic in the parameters: parameters already evaluated give
\* the loss they gave, others any loss
LossChoices ==
    IF \E e \in 1..Len(endParams) : endParams[e] = heap[model]
    THEN {valLoss[e] : e \in {f \in 1..Len(endParams) : endParams[f] = heap[model]}}
    ELSE 1..MaxLoss

NoHeap == [o \in {} |-> 0]

RunInit ==
    /\ pc = "top" /\ stmt = 1 /\ bound = {} /\ exc = "none"
    /\ nTrain \in 1..MaxRows /\ nVal \in 1..MaxRows /\ nTest \in 1..MaxRows
    /\ bptt \in 1..MaxBptt
    /\ epoch = 0 /\ batchI = 0 /\ batch = 0 /\ logged = 0
    /\ heap = NoHeap /\ model = "None" /\ best_model = "None"
    /\ best_val_loss = 0 /\ val_loss = 0
    /\ opt_lr = <<0, 1>> /\ sched_last_epoch = 0
    /\ valLoss = <<>> /\ endParams = <<>> /\ stepLr = {} /\ testedParams = 0
    /\ DataIdle /\ GradIdle

sizeVars == <<nTrain, nVal, nTest>>
histVars == <<valLoss, endParams, stepLr, testedParams>>
otherVars == <<dataVars, bptt, gradVars>>

\* a step raises: nothing but the control position and the exception changes
Raise(what) ==
    /\ exc' = what
    /\ pc' = RaiseTo(pc)
    /\ UNCHANGED <<stmt, bound, sizeVars, epoch, batchI, batch, logged, heap, model,
                   best_model, best_val_loss, val_loss, opt_lr, sched_last_epoch,
                   histVars, otherVars>>

\* the next code cell before the epoch loop
ExecCell ==
    /\ pc = "top"
    /\ LET r == Exec(Program[stmt], bound)
           w == Writes(Program[stmt])
       IN IF ~r.ok THEN Raise("NameError")
          ELSE /\ bound' = r.bound
               /\ stmt' = stmt + 1
               /\ pc' = IF stmt = Len(Program) THEN "for" ELSE "top"
               /\ model' = IF "model" \in w THEN "m1" ELSE model
               /\ heap' = IF "model" \in w THEN [o \in {"m1"} |-> 0] ELSE heap
               /\ opt_lr' = IF "optimizer" \in w THEN <<lr, 1>> ELSE opt_lr
               /\ sched_last_epoch' = IF "scheduler" \in w THEN 0 ELSE sched_last_epoch
               /\ best_val_loss' = IF "best_val_loss" \in w THEN Inf ELSE best_val_loss
               /\ best_model' = IF "best_model" \in w THEN "None" ELSE best_model
               /\ UNCHANGED <<exc, sizeVars, epoch, batchI, batch, logged, val_loss,
                              histVars, otherVars>>

\* for epoch in range(1, epochs + 1): the next epoch starts and train() is entered
ForEpoch ==
    /\ pc = "for"
    /\ epoch < epochs
    /\ LET r == Exec(ForEpochStmts, bound)
       IN IF ~r.ok THEN Raise("NameError")
          ELSE /\ bound' = r.bound
               /\ epoch' = epoch + 1
               /\ batchI' = 0
               /\ batch' = 0
               /\ pc' = "train"
               /\ UNCHANGED <<stmt, exc, sizeVars, logged, heap, model, best_model,
                              best_val_loss, val_loss, opt_lr, sched_last_epoch,
                              histVars, otherVars>>

\* one batch of train(): get_batch .. optimizer.step(), then the logging branch
TrainBatch ==
    /\ pc = "train"
    /\ batchI < nTrain - 1
    /\ LET logs == batch % LogInterval = 0 /\ batch > 0
           r == Exec(IF logs THEN TrainBatchStmts \o TrainLogStmts ELSE TrainBatchStmts,
                     bound)
       IN IF ~r.ok THEN Raise("NameError")
          ELSE /\ heap' = [heap EXCEPT ![model] = @ + 1]
               /\ stepLr' = stepLr \cup {<<epoch, opt_lr>>}
               /\ logged' = IF logs THEN logged + 1 ELSE logged
               /\ batch' = batch + 1
               /\ batchI' = batchI + bptt
               /\ UNCHANGED <<pc, stmt, bound, exc, sizeVars, epoch, model, best_model,
                              best_val_loss, val_loss, opt_lr, sched_last_epoch,
                              valLoss, endParams, testedParams, otherVars>>

\* a step of a training batch raises
TrainBatchRaises ==
    /\ pc = "train"
    /\ exc = "none"
    /\ batchI < nTrain - 1
    /\ \E s \in TrainSteps : Raise(s)

\* train() returns and evaluate(model, val_data) is entered
TrainReturn ==
    /\ pc = "train"
    /\ batchI >= nTrain - 1
    /\ LET r == Exec(EvalEntryStmts, bound)
       IN IF ~r.ok THEN Raise("NameError")
          ELSE /\ pc' = "eval"
               /\ batchI' = 0
               /\ UNCHANGED <<stmt, bound, exc, sizeVars, epoch, batch, logged, heap,
                              model, best_model, best_val_loss, val_loss, opt_lr,
                              sched_last_epoch, histVars, otherVars>>

\* rows of the tensor the running evaluate() was given
EvalRows == IF pc = "test" THEN nTest ELSE nVal

\* one batch of evaluate(), on val_data or on test_data
EvalBatch ==
    /\ pc \in {"eval", "test"}
    /\ batchI < EvalRows - 1
    /\ LET r == Exec(EvalBatchStmts, bound)
       IN IF ~r.ok THEN Raise("NameError")
          ELSE /\ batchI' = batchI + bptt
               /\ UNCHANGED <<pc, stmt, bound, exc, sizeVars, epoch, batch, logged, heap,
                              model, best_model, best_val_loss, val_loss, opt_lr,
                              sched_last_epoch, histVars, otherVars>>

\* a step of an evaluation batch raises
EvalBatchRaises ==
    /\ pc \in {"eval", "test"}
    /\ exc = "none"
    /\ batchI < EvalRows - 1
    /\ \E s \in EvalSteps : Raise(s)

\* evaluate(model, val_data) returns total_loss / (len(data_source) - 1)
EvalReturn ==
    /\ pc = "eval"
    /\ batchI >= nVal - 1
    /\ LET r == Exec(EvalReturnStmts, bound)
       IN IF nVal - 1 = 0 THEN Raise("ZeroDivisionError")
          ELSE IF ~r.ok THEN Raise("NameError")
          ELSE /\ \E l \in LossChoices :
                     /\ val_loss' = l
                     /\ valLoss' = Append(valLoss, l)
               /\ endParams' = Append(endParams, heap[model])
               /\ bound' = r.bound
               /\ pc' = "compare"
               /\ UNCHANGED <<stmt, exc, sizeVars, epoch, batchI, batch, logged, heap,
                              model, best_model, best_val_loss, opt_lr,
                              sched_last_epoch, stepLr, testedParams, otherVars>>

\* if val_loss < best_val_loss: best_val_loss = val_loss; best_model = model
\* (best_model is bound to the object model names: no copy is made)
SaveBest ==
    /\ pc = "compare"
    /\ LET r == Exec(CompareStmts \o (IF val_loss < best_val_loss THEN SaveStmts ELSE <<>>),
                     bound)
       IN IF ~r.ok THEN Raise("NameError")
          ELSE /\ IF val_loss < best_val_loss
                  THEN /\ best_val_loss' = val_loss
                       /\ best_model' = model
                  ELSE UNCHANGED <<best_val_loss, best_model>>
               /\ bound' = r.bound
               /\ pc' = "sched"
               /\ UNCHANGED <<stmt, exc, sizeVars, epoch, batchI, batch, logged, heap,
                              model, val_loss, opt_lr, sched_last_epoch, histVars,
                              otherVars>>

SchedulerStep_Skipped ==
    /\ pc = "sched"
    /\ pc' = "for"
    /\ UNCHANGED <<stmt, bound, exc, sizeVars, epoch, batchI, batch, logged, heap, model,
                   best_model, best_val_loss, val_loss, opt_lr, sched_last_epoch,
                   histVars, otherVars>>

\* scheduler.step(), the last statement of the epoch
SchedulerStep ==
    /\ pc = "sched"
    /\ LET r == Exec(SchedulerStmts, bound)
       IN IF ~r.ok THEN Raise("NameError")
          ELSE /\ sched_last_epoch' = sched_last_epoch + 1
               /\ opt_lr' = Decay(opt_lr, sched_last_epoch + 1)
               /\ pc' = "for"
               /\ UNCHANGED <<stmt, bound, exc, sizeVars, epoch, batchI, batch, logged,
                              heap, model, best_model, best_val_loss, val_loss,
                              histVars, otherVars>>

\* the epoch loop is exhausted; the test cell calls evaluate(best_model, test_data),
\* which reads the parameters of the object best_model names
TestEntry ==
    /\ pc = "for"
    /\ epoch >= epochs
    /\ LET r == Exec(TestEntryStmts, bound)
       IN IF ~r.ok THEN Raise("NameError")
          ELSE IF best_model = "None" THEN Raise("AttributeError")
          ELSE /\ testedParams' = heap[best_model]
               /\ pc' = "test"
               /\ batchI' = 0
               /\ UNCHANGED <<stmt, bound, exc, sizeVars, epoch, batch, logged, heap,
                              model, best_model, best_val_loss, val_loss, opt_lr,
                              sched_last_epoch, valLoss, endParams, stepLr, otherVars>>

\* evaluate(best_model, test_data) returns and the test cell prints
TestReturn ==
    /\ pc = "test"
    /\ batchI >= nTest - 1
    /\ LET r == Exec(TestReturnStmts, bound)
       IN IF nTest - 1 = 0 THEN Raise("ZeroDivisionError")
          ELSE IF ~r.ok THEN Raise("NameError")
          ELSE /\ bound' = r.bound
               /\ pc' = "done"
               /\ UNCHANGED <<stmt, exc, sizeVars, epoch, batchI, batch, logged, heap,
                              model, best_model, best_val_loss, val_loss, opt_lr,
                              sched_last_epoch, histVars, otherVars>>

Next ==
    \/ ExecCell \/ ForEpoch \/ TrainBatch \/ TrainBatchRaises \/ TrainReturn
    \/ EvalBatch \/ EvalBatchRaises \/ EvalReturn \/ SaveBest \/ SchedulerStep
    \/ TestEntry \/ TestReturn

Spec == RunInit /\ [][Next]_vars

\* ============================================================ the autograd cells
XLen == 3           \* x = torch.randn(3, requires_grad=True)

OpRequiresGrad_IgnoresMode(t) == t.requires_grad

\* the requires_grad flag of an operation's result: history is tracked when grad
\* mode is on and the operand requires grad
OpRequiresGrad(t) == grad_enabled /\ t.requires_grad

\* x ** 2
Square(t) == [val |-> [k \in 1..Len(t.val) |-> t.val[k] * t.val[k]],
              requires_grad |-> OpRequiresGrad(t)]

\* x.detach(): a new tensor with the same content that does not require grad
Detach(t) == [val |-> t.val, requires_grad |-> FALSE]

\* x.eq(y).all()
EqAll(a, b) == \A k \in 1..Len(a.val) : a.val[k] = b.val[k]

GradInit ==
    /\ gpc = 1
    /\ grad_enabled = TRUE /\ saved_mode = TRUE
    /\ xT \in [val : [1..XLen -> (-MaxAbs)..MaxAbs], requires_grad : {TRUE}]
    /\ yT = NoT /\ outside = NoT /\ inside = NoT /\ printed = <<>>
    /\ bptt = 1
    /\ DataIdle /\ RunIdle

gradRest == <<dataVars, bptt, runVars>>

\* print(x.requires_grad), first statement of the no_grad cell
PrintX1 ==
    /\ gpc = 1
    /\ printed' = Append(printed, xT.requires_grad)
    /\ gpc' = 2
    /\ UNCHANGED <<grad_enabled, saved_mode, xT, yT, outside, inside, gradRest>>

\* print((x ** 2).requires_grad) outside the block
SquareOutside ==
    /\ gpc = 2
    /\ outside' = Square(xT)
    /\ printed' = Append(printed, Square(xT).requires_grad)
    /\ gpc' = 3
    /\ UNCHANGED <<grad_enabled, saved_mode, xT, yT, inside, gradRest>>

\* with torch.no_grad(): __enter__ saves the mode and turns tracking off
NoGradEnter ==
    /\ gpc = 3
    /\ saved_mode' = grad_enabled
    /\ grad_enabled' = FALSE
    /\ gpc' = 4
    /\ UNCHANGED <<xT, yT, outside, inside, printed, gradRest>>

\* print((x ** 2).requires_grad) inside the block
SquareInside ==
    /\ gpc = 4
    /\ inside' = Square(xT)
    /\ printed' = Append(printed, Square(xT).requires_grad)
    /\ gpc' = 5
    /\ UNCHANGED <<grad_enabled, saved_mode, xT, yT, outside, gradRest>>

\* the block is left: __exit__ restores the saved mode
NoGradExit ==
    /\ gpc = 5
    /\ grad_enabled' = saved_mode
    /\ gpc' = 6
    /\ UNCHANGED <<saved_mode, xT, yT, outside, inside, printed, gradRest>>

\* print(x.requires_grad), first statement of the detach cell
PrintX2 ==
    /\ gpc = 6
    /\ printed' = Append(printed, xT.requires_grad)
    /\ gpc' = 7
    /\ UNCHANGED <<grad_enabled, saved_mode, xT, yT, outside, inside, gradRest>>

\* y = x.detach(); print(y.requires_grad)
DetachX ==
    /\ gpc = 7
    /\ yT' = Detach(xT)
    /\ printed' = Append(printed, Detach(xT).requires_grad)
    /\ gpc' = 8
    /\ UNCHANGED <<grad_enabled, saved_mode, xT, outside, inside, gradRest>>

\* print(x.eq(y).all())
PrintEq ==
    /\ gpc = 8
    /\ printed' = Append(printed, EqAll(xT, yT))
    /\ gpc' = 9
    /\ UNCHANGED <<grad_enabled, saved_mode, xT, yT, outside, inside, gradRest>>

GradNext ==
    \/ PrintX1 \/ SquareOutside \/ NoGradEnter \/ SquareInside \/ NoGradExit
    \/ PrintX2 \/ DetachX \/ PrintEq

SpecGrad == GradInit /\ [][GradNext]_vars

\* ------------------------------------------------- properties of SpecData
nbatch == Len(text) \div bsz

BatchifyResult ==
    /\ dpc # "raised"
    /\ batched.rows = nbatch
    /\ batched.cols = bsz
    /\ \A r \in 0..(nbatch - 1) : \A c \in 0..(bsz - 1) :
          batched.el[r][c] = stoi(text[c * nbatch + r + 1])
    /\ Numel(batched) = Len(text) - (Len(text) % bsz)

C3_TargetIsNextToken ==
    lastCall # "none" =>
        /\ batched.rows >= 2 /\ i >= 0 /\ i < batched.rows - 1
        /\ data.rows >= 1
        /\ data.cols = batched.cols
        /\ target.len = data.rows * batched.cols
        /\ \A k \in 0..(data.rows - 1) : \A c \in 0..(batched.cols - 1) :
              /\ data.el[k][c] = batched.el[i + k][c]
              /\ target.el[k * batched.cols + c] = batched.el[i + k + 1][c]

C3_Witness ==
    /\ lastCall = "any" /\ i >= 1 /\ i % bptt # 0 /\ batched.cols >= 2 /\ data.rows >= 1

C5_MaskHidesFuture ==
    src_mask # NoTensor =>
        /\ src_mask.rows = src_mask.cols
        /\ \A r \in 0..(src_mask.rows - 1) : \A c \in 0..(src_mask.rows - 1) :
              src_mask.el[r][c] = (IF c <= r THEN "0.0" ELSE "-inf")

C5_Witness == src_mask # NoTensor /\ src_mask.rows >= 3 /\ src_mask.rows = data.rows

\* ------------------------------------------------- properties of Spec
RECURSIVE Pow(_, _)
Pow(b, k) == IF k = 0 THEN 1 ELSE b * Pow(b, k - 1)

\* the initial rate decayed k times by gamma
Rate(k) == <<lr * Pow(GammaNum, k), Pow(GammaDen, k)>>

IsLowest(e) == \A f \in 1..Len(valLoss) : valLoss[e] <= valLoss[f]

\* the parameters reached through the name best_model
SavedParams == IF best_model = "None" THEN -1 ELSE heap[best_model]

\* C1: when evaluate(best_model, test_data) runs after the epoch loop, the parameters
\* of best_model are those the model had at the end of an epoch whose validation loss
\* is the lowest of all epochs, also when a later epoch trained further.
C1_TestUsesBestEpochParams ==
    pc \in {"test", "done"} =>
        \E e \in 1..Len(valLoss) : IsLowest(e) /\ testedParams = endParams[e]

\* C6: after every epoch best_val_loss is the minimum of the validation losses so
\* far; best_val_loss and best_model (the binding and the parameters saved under it)
\* change only in an epoch whose validation loss is strictly lower than every
\* earlier one; best_val_loss never increases.
C6_SavedOnlyWhenBest ==
    [][pc # "top" =>
        /\ pc' = "sched" =>
              \A e \in 1..Len(valLoss') : best_val_loss' <= valLoss'[e]
        /\ (best_val_loss' # best_val_loss \/ best_model' # best_model
                \/ SavedParams' # SavedParams) =>
              /\ pc = "compare"
              /\ \A e \in 1..(Len(valLoss) - 1) : val_loss < valLoss[e]
        /\ best_val_loss' <= best_val_loss]_vars

\* The part of C6 about the two names alone (the binding of best_model, not the
\* parameters of the object it names).
BestBindingsChangeOnlyWhenBest ==
    [][pc # "top" =>
        /\ pc' = "sched" =>
              /\ \A e \in 1..Len(valLoss') : best_val_loss' <= valLoss'[e]
              /\ \E e \in 1..Len(valLoss') : best_val_loss' = valLoss'[e]
        /\ (best_val_loss' # best_val_loss \/ best_model' # best_model) =>
              /\ pc = "compare"
              /\ \A e \in 1..(Len(valLoss) - 1) : val_loss < valLoss[e]
        /\ best_val_loss' <= best_val_loss]_vars

\* C7: scheduler.step() runs once per epoch, after the epoch's train() and evaluate()
\* and before the next epoch's first optimizer step: every optimizer step of epoch e
\* uses the initial rate 5.0 decayed e-1 times by 0.95, and the rate is the same
\* throughout an epoch.
C7_RatePerEpoch ==
    /\ \A p \in stepLr : p[2] = Rate(p[1] - 1)
    /\ pc \in {"train", "eval", "compare", "sched"} =>
          /\ sched_last_epoch = epoch - 1
          /\ opt_lr = Rate(epoch - 1)
    /\ pc \in {"for", "test", "done"} => sched_last_epoch = epoch

C7_Witness == pc = "done" /\ \E p \in stepLr : p[1] = epochs

\* C8: run once each in file order, no cell evaluates a name that is not bound yet.
C8_NoUndefinedName == exc # "NameError"

C8_Witness == pc = "done" /\ logged > 0 /\ "test_loss" \in bound

\* C9: a step that raises ends the run: the exception leaves train()/evaluate() and
\* the epoch loop, the raising step changes nothing else, and afterwards no batch,
\* epoch, scheduler step or update of best_val_loss/best_model happens.
C9_ErrorsPropagate ==
    [][/\ (exc = "none" /\ exc' # "none") =>
              /\ pc' = "aborted"
              /\ UNCHANGED <<epoch, batchI, batch, heap, best_model, best_val_loss,
                             opt_lr, sched_last_epoch, valLoss, stepLr>>
       /\ exc # "none" => UNCHANGED vars]_vars

C9_Witness ==
    /\ pc = "aborted" /\ exc \in TrainSteps /\ epoch = 2 /\ batch >= 1
    /\ best_model # "None"

\* ------------------------------------------------- properties of SpecGrad
\* C10: history tracking is off exactly inside the no_grad block: x ** 2 computed
\* outside requires grad, computed inside it does not, tracking is back when the block
\* is left, x.requires_grad is True throughout, and x.detach() has the content of x,
\* does not require grad and leaves x unchanged.
C10_NoGradScope ==
    /\ xT.requires_grad
    /\ grad_enabled <=> gpc \notin {4, 5}
    /\ gpc > 2 => outside.requires_grad
    /\ gpc > 4 => ~inside.requires_grad
    /\ gpc > 7 => (~yT.requires_grad /\ yT.val = xT.val)
    /\ gpc = 9 => printed = <<TRUE, TRUE, FALSE, TRUE, FALSE, TRUE>>

C10_Witness == gpc = 9 /\ \E k \in 1..XLen : xT.val[k] # 0

====
